---------------------------- MODULE Spec2Model ----------------------------
(***************************************************************************)
(* Workload optimization of lvl.ai: the organizer agent's optimizeWorkload *)
(* (candidate selection, model call, recommendation extraction) and the    *)
(* GET /organizer/workload-optimization route that races it against a      *)
(* 30 second timer; the POST /organizer/apply-workload-optimization route  *)
(* that writes recommendations back; chatWithOrganizer with its context    *)
(* reads and provider selection, and the routes that await it;            *)
(* retrieveCompleteContext with its statistics; and the workload page     *)
(* (WorkloadOptimizationPage) that displays, selects and applies the       *)
(* recommendations.                                                        *)
(*                                                                         *)
(* Text is a sequence of tokens (a prose word, a ``` fence, a brace, the   *)
(* "recommendations" key, ...), dates are ticks since the epoch with       *)
(* TicksPerDay ticks in a calendar day, identifiers and priorities are     *)
(* strings.  The empty string and NoDate stand for JavaScript's absent     *)
(* values (undefined, null, ''), NaN for an Invalid Date / NaN number.     *)
(***************************************************************************)
EXTENDS Integers, Sequences, FiniteSets, TLC

\* ------------------------------------------------------------------ bounds
MaxStore == 3       \* tasks in the store of the sorting specification
MaxChunks == 3      \* pieces of text a model reply is made of
MaxEntries == 2     \* entries of a recommendations array
MaxCalls == 2       \* calls of the agent made one after the other
TicksPerDay == 2    \* instants told apart within one calendar day
MaxRequests == 3    \* requests the workload page sends

\* ------------------------------------------------------- program constants
DefaultDays == 7
DefaultMaxTasks == 15

NoDate == 0          \* null / undefined due date
InvalidDate == -1    \* a Date whose getTime() is NaN

Midnight(day) == day * TicksPerDay

User == "u1"

Priorities == {"low", "medium", "high", "urgent"}
Statuses == {"pending", "in-progress", "completed"}

\* ---------------------------------------------------------------- helpers
SeqsUpTo(S, n) == UNION {[1..k -> S] : k \in 0..n}

RECURSIVE FlattenSeq(_)
FlattenSeq(ss) ==
    IF ss = <<>> THEN <<>> ELSE Head(ss) \o FlattenSeq(Tail(ss))

\* Array.prototype.slice(0, n): a negative n counts from the end
Slice0(s, n) ==
    LET stop == IF n < 0 THEN (IF Len(s) + n < 0 THEN 0 ELSE Len(s) + n)
                ELSE (IF n > Len(s) THEN Len(s) ELSE n)
    IN SubSeq(s, 1, stop)

\* ------------------------------------------------- candidate selection
\* priorityOrder[p] || 0
PriorityOrder(p) ==
    CASE p = "urgent" -> 4
      [] p = "high"   -> 3
      [] p = "medium" -> 2
      [] p = "low"    -> 1
      [] OTHER        -> 0

\* the comparator handed to sort
CompareTasks(a, b) ==
    LET priorityDiff == PriorityOrder(b.priority) - PriorityOrder(a.priority)
    IN IF priorityDiff # 0 THEN priorityDiff
       ELSE IF a.dueDate # NoDate /\ b.dueDate # NoDate THEN a.dueDate - b.dueDate
       ELSE IF a.dueDate # NoDate THEN -1
       ELSE IF b.dueDate # NoDate THEN 1
       ELSE 0

\* as InsertSorted, but equal elements change places
RECURSIVE InsertSortedUnstable(_, _)
InsertSortedUnstable(sorted, x) ==
    IF sorted = <<>> THEN <<x>>
    ELSE LET last == sorted[Len(sorted)]
         IN IF CompareTasks(last, x) >= 0
            THEN Append(InsertSortedUnstable(SubSeq(sorted, 1, Len(sorted) - 1), x),
                        last)
            ELSE Append(sorted, x)

\* Array.prototype.sort is a stable sort: insertion from the right
RECURSIVE InsertSorted(_, _)
InsertSorted(sorted, x) ==
    IF sorted = <<>> THEN <<x>>
    ELSE LET last == sorted[Len(sorted)]
         IN IF CompareTasks(last, x) > 0
            THEN Append(InsertSorted(SubSeq(sorted, 1, Len(sorted) - 1), x), last)
            ELSE Append(sorted, x)

RECURSIVE SortTasks(_)
SortTasks(s) ==
    IF s = <<>> THEN <<>>
    ELSE InsertSorted(SortTasks(SubSeq(s, 1, Len(s) - 1)), s[Len(s)])

IsOpen(t) == t.status = "pending" \/ t.status = "in-progress"

\* Task.find({ userId }), Array.prototype.filter being SelectSeq, in the store's return order
RetrieveUserTasks(st, uid) ==
    LET Mine(t) == t.owner = uid IN SelectSeq(st, Mine)

\* the result of parseInt: a number or NaN
Num(n) == [nan |-> FALSE, n |-> n]
NaNNum == [nan |-> TRUE, n |-> 0]

\* a query value: absent (or empty), or present with what parseInt reads from it
NoParam == [present |-> FALSE, val |-> NaNNum]
Param(v) == [present |-> TRUE, val |-> v]

\* req.query[x] ? parseInt(req.query[x]) : dflt
QueryInt(q, dflt) == IF q.present THEN q.val ELSE Num(dflt)

\* options?.x || dflt : 0 and NaN are falsy
OrDefault(v, dflt) == IF v.nan \/ v.n = 0 THEN dflt ELSE v.n

\* filter, sort, slice(0, maxTasks)
SelectCandidates(ts, maxTasks) ==
    Slice0(SortTasks(SelectSeq(ts, IsOpen)), maxTasks)


\* ------------------------------------------------------------ reply text
\* What the model wrote in one entry of its recommendations array.
Entry(shape, taskId, curDue, curPri, sugDue, sugPri) ==
    [shape |-> shape, taskId |-> taskId, currentDueDate |-> curDue,
     currentPriority |-> curPri, suggestedDueDate |-> sugDue,
     suggestedPriority |-> sugPri]
EmptyEntry == Entry("obj", "", "", "", "", "")      \* {} (or a nested array)
NullEntry == Entry("null", "", "", "", "", "")      \* null

\* A token of text: a prose word, a ``` fence, { } [ ], the key
\* "recommendations":, the literal null, some other "key": value member,
\* or the members of one entry.
Tok(k) == [k |-> k, e |-> EmptyEntry]
BodyTok(e) == [k |-> "body", e |-> e]

SetMin(S) == CHOOSE x \in S : \A y \in S : x <= y
SetMax(S) == CHOOSE x \in S : \A y \in S : x >= y

At(s, k) == {i \in 1..Len(s) : s[i].k = k}
NoMatch == [found |-> FALSE, from |-> 0, to |-> 0, span |-> <<>>]
Match(s, from, to, gFrom, gTo) ==
    [found |-> TRUE, from |-> from, to |-> to, span |-> SubSeq(s, gFrom, gTo)]

\* /```(?:json)?\s*(\{[\s\S]*?\})\s*```/ : the leftmost fence followed by {,
\* lazily up to the first } that a fence follows; the span is group 1
CodeBlockMatch(s) ==
    LET Ends(i) == {j \in At(s, "}") : j > i + 1 /\ (j + 1) \in At(s, "fence")}
        starts == {i \in At(s, "fence") : (i + 1) \in At(s, "{") /\ Ends(i) # {}}
    IN IF starts = {} THEN NoMatch
       ELSE LET i == SetMin(starts)
                j == SetMin(Ends(i))
            IN Match(s, i, j + 1, i + 1, j)

\* /\{[\s\S]*?"recommendations"[\s\S]*?\}/ : the leftmost {, lazily up to the
\* first key after it, lazily up to the first } after that key
JsonObjectMatch(s) ==
    LET Keys(i) == {k \in At(s, "key") : k > i /\ \E j \in At(s, "}") : j > k}
        starts == {i \in At(s, "{") : Keys(i) # {}}
    IN IF starts = {} THEN NoMatch
       ELSE LET i == SetMin(starts)
                k == SetMin(Keys(i))
                j == SetMin({j \in At(s, "}") : j > k})
            IN Match(s, i, j, i, j)

\* /\{[\s\S]*\}/ : the leftmost {, greedily up to the last }
AnyJsonMatch(s) ==
    LET starts == {i \in At(s, "{") : \E j \in At(s, "}") : j > i}
    IN IF starts = {} THEN NoMatch
       ELSE LET i == SetMin(starts)
                j == SetMax(At(s, "}"))
            IN Match(s, i, j, i, j)

\* the three patterns: a later one is tried only while jsonString is empty
FindJson(s) ==
    IF CodeBlockMatch(s).found THEN CodeBlockMatch(s)
    ELSE IF JsonObjectMatch(s).found THEN JsonObjectMatch(s)
    ELSE AnyJsonMatch(s)

\* jsonString.replace(/^```json\s*/i, '').replace(/^```\s*/, '')
\*           .replace(/\s*```$/, '')
StripFences(span) ==
    LET a == IF span # <<>> /\ Head(span).k = "fence" THEN Tail(span) ELSE span
        b == IF a # <<>> /\ Head(a).k = "fence" THEN Tail(a) ELSE a
    IN IF b # <<>> /\ b[Len(b)].k = "fence" THEN SubSeq(b, 1, Len(b) - 1) ELSE b

\* ------------------------------------------------------------ JSON.parse
\* A parsed value: null, an object (its entry members, and its
\* recommendations member when it has one) or an array (its elements).
ParseFail == [ok |-> FALSE, next |-> 0, t |-> "null", entry |-> EmptyEntry,
              hasRecs |-> FALSE, recsArr |-> FALSE, recs |-> <<>>]
ParsedNull(next) == [ParseFail EXCEPT !.ok = TRUE, !.next = next]
ParsedObj(next, o) == [o EXCEPT !.ok = TRUE, !.next = next, !.t = "obj"]
ParsedArr(next, elems) ==
    [ParseFail EXCEPT !.ok = TRUE, !.next = next, !.t = "arr", !.recs = elems]

\* an element of the recommendations array as the entry the code reads
AsEntry(v) ==
    CASE v.t = "null" -> NullEntry
      [] v.t = "obj"  -> v.entry
      [] OTHER        -> EmptyEntry

RECURSIVE ParseValue(_, _)
RECURSIVE ParseMembers(_, _, _)
RECURSIVE ParseElements(_, _, _)

ParseValue(s, i) ==
    IF i > Len(s) THEN ParseFail
    ELSE CASE s[i].k = "null" -> ParsedNull(i + 1)
           [] s[i].k = "{"    -> ParseMembers(s, i + 1, ParseFail)
           [] s[i].k = "["    -> ParseElements(s, i + 1, <<>>)
           [] OTHER           -> ParseFail

ParseMembers(s, i, o) ==
    IF i > Len(s) THEN ParseFail
    ELSE CASE s[i].k = "}"    -> ParsedObj(i + 1, o)
           [] s[i].k = "pair" -> ParseMembers(s, i + 1, o)
           [] s[i].k = "body" -> ParseMembers(s, i + 1, [o EXCEPT !.entry = s[i].e])
           [] s[i].k = "key"  ->
                LET v == ParseValue(s, i + 1)
                IN IF ~v.ok THEN ParseFail
                   ELSE ParseMembers(s, v.next,
                            [o EXCEPT !.hasRecs = (v.t # "null"),
                                      !.recsArr = (v.t = "arr"),
                                      !.recs = IF v.t = "arr" THEN v.recs ELSE <<>>])
           [] OTHER           -> ParseFail

ParseElements(s, i, acc) ==
    IF i > Len(s) THEN ParseFail
    ELSE IF s[i].k = "]" THEN ParsedArr(i + 1, acc)
    ELSE LET v == ParseValue(s, i)
         IN IF ~v.ok THEN ParseFail
            ELSE ParseElements(s, v.next, Append(acc, AsEntry(v)))

\* JSON.parse(text): the whole text is one value, or it throws
JsonParse(s) ==
    LET v == ParseValue(s, 1)
    IN IF v.ok /\ v.next = Len(s) + 1 THEN v ELSE ParseFail


\* ------------------------------------------------- recommendation mapping
\* new Date(text).getTime(): a YYYY-MM-DD text is midnight UTC of that day
ParseDate(text) ==
    CASE text = "2024-01-01" -> Midnight(1)
      [] text = "2024-01-02" -> Midnight(2)
      [] OTHER               -> InvalidDate

\* date.toISOString().split('T')[0], as the number of the calendar day
IsoDay(date) == date \div TicksPerDay

\* String(p).toLowerCase()
ToLowerCase(p) ==
    CASE p = "HIGH"   -> "high"
      [] p = "Low"    -> "low"
      [] p = "URGENT" -> "urgent"
      [] OTHER        -> p

\* a || b on strings: the empty string is falsy
Or(a, b) == IF a # "" THEN a ELSE b

ValidTaskIds(pendingTasks) == {pendingTasks[i].id : i \in 1..Len(pendingTasks)}

\* the filter callback: validTaskIds.has(String(rec.taskId || ''))
IsValidRec(rec, pendingTasks) == Or(rec.taskId, "") \in ValidTaskIds(pendingTasks)

\* pendingTasks.find(t => String(t.id) === String(rec.taskId)); NoTask when
\* find returns undefined
NoTask == [id |-> "", owner |-> "", priority |-> "", status |-> "",
           dueDate |-> NoDate, title |-> "", points |-> 0, tags |-> {}]
OriginalTask(rec, pendingTasks) ==
    LET hits == {i \in 1..Len(pendingTasks) : pendingTasks[i].id = rec.taskId}
    IN IF hits = {} THEN NoTask ELSE pendingTasks[SetMin(hits)]

\* as SuggestedDueDate, but the Invalid Date is kept
SuggestedDueDateUnchecked(rec) ==
    IF rec.suggestedDueDate = "" THEN NoDate
    ELSE ParseDate(rec.suggestedDueDate)

\* suggestedDueDate of the map callback: null unless the entry has a
\* suggestedDueDate that new Date() can read
SuggestedDueDate(rec) ==
    IF rec.suggestedDueDate = "" THEN NoDate
    ELSE IF ParseDate(rec.suggestedDueDate) = InvalidDate THEN NoDate
    ELSE ParseDate(rec.suggestedDueDate)

HasDateChange(rec, originalTask) ==
    LET currentDateStr == IF originalTask.dueDate # NoDate
                          THEN IsoDay(originalTask.dueDate) ELSE NoDate
        suggestedDateStr == IF SuggestedDueDate(rec) # NoDate
                            THEN IsoDay(SuggestedDueDate(rec)) ELSE NoDate
    IN currentDateStr # suggestedDateStr

HasPriorityChange(rec, originalTask) ==
    /\ rec.suggestedPriority # ""
    /\ ToLowerCase(Or(rec.currentPriority, originalTask.priority))
         # ToLowerCase(rec.suggestedPriority)

\* the recommendation the map callback returns for a kept entry
Recommendation(rec, originalTask) ==
    [taskId |-> Or(rec.taskId, originalTask.id),
     currentDueDate |-> originalTask.dueDate,
     suggestedDueDate |-> SuggestedDueDate(rec),
     currentPriority |-> Or(rec.currentPriority, Or(originalTask.priority, "medium")),
     suggestedPriority |-> rec.suggestedPriority]

\* as MapRecommendations, but an entry naming no candidate fails the batch
RECURSIVE MapRecommendationsAllOrNothing(_, _)
MapRecommendationsAllOrNothing(recs, pendingTasks) ==
    IF recs = <<>> THEN <<>>
    ELSE LET rec == Head(recs)
             rest == MapRecommendationsAllOrNothing(Tail(recs), pendingTasks)
             originalTask == OriginalTask(rec, pendingTasks)
         IN IF \E i \in 1..Len(recs) : ~IsValidRec(recs[i], pendingTasks) THEN <<>>
            ELSE IF ~HasDateChange(rec, originalTask)
                    /\ ~HasPriorityChange(rec, originalTask)
            THEN rest
            ELSE <<Recommendation(rec, originalTask)>> \o rest

\* .filter(valid id).map(to recommendation or null).filter(not null)
RECURSIVE MapRecommendations(_, _)
MapRecommendations(recs, pendingTasks) ==
    IF recs = <<>> THEN <<>>
    ELSE LET rec == Head(recs)
             rest == MapRecommendations(Tail(recs), pendingTasks)
         IN IF ~IsValidRec(rec, pendingTasks) THEN rest
            ELSE LET originalTask == OriginalTask(rec, pendingTasks)
                 IN IF originalTask = NoTask THEN rest
                    ELSE IF ~HasDateChange(rec, originalTask)
                            /\ ~HasPriorityChange(rec, originalTask)
                    THEN rest
                    ELSE <<Recommendation(rec, originalTask)>> \o rest

\* aiResponse.split(jsonMatch[0]): jsonMatch is the matched text, so
\* jsonMatch[0] is its first character, a backquote or an opening brace
SplitParts(aiResponse, m) ==
    LET sep == aiResponse[m.from].k
        first == SetMin(At(aiResponse, sep))
        later == {i \in At(aiResponse, sep) : i > first}
        second == IF later = {} THEN Len(aiResponse) + 1 ELSE SetMin(later)
    IN [before |-> SubSeq(aiResponse, 1, first - 1),
        after |-> IF sep = "fence" THEN <<>>
                  ELSE SubSeq(aiResponse, first + 1, second - 1)]

Outcome(threw, analysis, recommendations, summary) ==
    [threw |-> threw, analysis |-> analysis,
     recommendations |-> recommendations, summary |-> summary]

\* the body of the try block once the patterns were tried: m is the match
ExtractFrom(aiResponse, m, pendingTasks) ==
    LET untouched == Outcome(FALSE, aiResponse, <<>>, <<>>)
        thrown == Outcome(TRUE, aiResponse, <<>>, <<>>)
    IN IF ~m.found THEN untouched
       ELSE LET jsonData == JsonParse(StripFences(m.span))
            IN IF ~jsonData.ok THEN thrown
               ELSE IF ~(jsonData.hasRecs /\ jsonData.recsArr) THEN untouched
               ELSE IF \E i \in 1..Len(jsonData.recs) : jsonData.recs[i].shape = "null"
                    THEN thrown          \* rec.taskId of null: a TypeError
               ELSE Outcome(FALSE, SplitParts(aiResponse, m).before,
                            MapRecommendations(jsonData.recs, pendingTasks),
                            SplitParts(aiResponse, m).after)

TryExtract(aiResponse, pendingTasks) ==
    ExtractFrom(aiResponse, FindJson(aiResponse), pendingTasks)

\* as CatchParseError, but the error is rethrown
CatchNothing(r, aiResponse) == r

\* catch (parseError): the full response as analysis, no recommendations
CatchParseError(r, aiResponse) ==
    IF r.threw THEN Outcome(FALSE, aiResponse, <<>>, r.summary) ELSE r

ExtractRecommendations(aiResponse, pendingTasks) ==
    CatchParseError(TryExtract(aiResponse, pendingTasks), aiResponse)


\* ------------------------------------------------------------------ state
VARIABLES
    store,          \* the Task collection, in the order find() returns it
    users,          \* the ids that have a User record
    env,            \* which provider credentials are configured
    pc,             \* the caller: "idle", "racing" (the route awaits the
                    \* race), "responded", "direct" (optimizeWorkload called
                    \* without the route)
    args,           \* what optimizeWorkload was called with
    opt,            \* the promise optimizeWorkload returned and where it is
    timer,          \* the route's setTimeout: "unset", "armed", "fired"
    winner,         \* which promise settled Promise.race
    handlers,       \* the promises that have a rejection handler attached
    unhandled,      \* the promises that rejected with no handler attached
    providerCalls,  \* the providers called, in order
    responses,      \* the HTTP responses sent, in order
    apply,          \* the apply handler: its loop and what it collected
    page            \* the workload page: its React state, the request it
                    \* posted, and its redirect timer

vars == <<store, users, env, pc, args, opt, timer, winner, handlers,
          unhandled, providerCalls, responses, apply, page>>

Task(id, owner, priority, status, dueDate) ==
    [id |-> id, owner |-> owner, priority |-> priority, status |-> status,
     dueDate |-> dueDate, title |-> id, points |-> 10,
     tags |-> {status}]

TimeoutMessage == "Optimization timeout: Process took too long"
NoPendingMessage == <<Tok("No pending tasks found to optimize.")>>

NoResult == Outcome(FALSE, <<>>, <<>>, <<>>)
\* n is the number of the call, message the user message it sends
NoArgs == [op |-> "", route |-> "", n |-> 0, userId |-> "", provider |-> "",
           message |-> "", days |-> NaNNum, maxTasks |-> NaNNum]

\* user and tasks are what the two reads of retrieveCompleteContext gave:
\* as IsOverdue, but a completed task past its due date counts too
IsOverduePastDue(task, now) == task.dueDate # NoDate /\ task.dueDate < now

\* task.dueDate && task.dueDate < new Date()
\*               && task.status !== TaskStatus.COMPLETED
IsOverdue(task, now) ==
    task.dueDate # NoDate /\ task.dueDate < now /\ task.status # "completed"

\* tasks.map(...) of retrieveUserTasks: each task with its isOverdue flag
TaskContexts(st, uid, now) ==
    LET tasks == RetrieveUserTasks(st, uid)
    IN [i \in 1..Len(tasks) |->
           [task |-> tasks[i], isOverdue |-> IsOverdue(tasks[i], now)]]

\* tasks.filter(t => t.status === status).length
CountStatus(tasks, status) ==
    LET Has(t) == t.task.status = status IN Len(SelectSeq(tasks, Has))

\* the statistics of retrieveCompleteContext
Stats(tasks) ==
    LET Flagged(t) == t.isOverdue
    IN [totalTasks |-> Len(tasks),
        pendingTasks |-> CountStatus(tasks, "pending"),
        inProgressTasks |-> CountStatus(tasks, "in-progress"),
        completedTasks |-> CountStatus(tasks, "completed"),
        overdueTasks |-> Len(SelectSeq(tasks, Flagged))]

\* { user, tasks, stats }
Context(user, tasks) == [user |-> user, tasks |-> tasks, stats |-> Stats(tasks)]
NoContext == Context("", <<>>)

\* "pending" until the read resolves, then the user's id or "null", and
\* "read"; taskContexts is what the read of the tasks gave, at the time now
OptAt(at) == [at |-> at, fetched |-> FALSE, pendingTasks |-> <<>>,
              user |-> "pending", tasks |-> "pending",
              taskContexts |-> <<>>, now |-> NoDate, context |-> NoContext,
              aiResponse |-> <<>>,
              result |-> NoResult, error |-> ""]

\* mongoose.Types.ObjectId.isValid: "" and "bad" are no ObjectId
IsValidObjectId(id) == id \notin {"", "bad"}

\* as GetPreferredAIProvider, but the OpenRouter credential is looked at first
GetPreferredOpenRouterFirst(e) ==
    IF e.openrouter THEN "openrouter"
    ELSE IF e.deepseek THEN "langchain"
    ELSE ""

\* options?.provider || getPreferredAIProvider(); "" when that throws
GetPreferredAIProvider(e) ==
    IF e.deepseek THEN "langchain"
    ELSE IF e.openrouter THEN "openrouter"
    ELSE ""

\* a promise settles: Promise.race follows the first of its promises to
\* settle, and a rejection nobody handles is an unhandled rejection
Settles(promise, rejected) ==
    /\ winner' = IF pc = "racing" /\ winner = "none" THEN promise ELSE winner
    /\ unhandled' = IF rejected /\ promise \notin handlers
                    THEN unhandled \cup {promise} ELSE unhandled

Resolve(o, result) == [o EXCEPT !.at = "resolved", !.result = result]
Reject(o, error) == [o EXCEPT !.at = "rejected", !.error = error]

\* optimizeWorkload up to its first await, inside retrieveUserTasks
StartOptimize(userId, options) ==
    /\ args' = [op |-> "optimizeWorkload", route |-> options.route,
                n |-> args.n + 1, userId |-> userId,
                provider |-> options.provider, message |-> "optimize",
                days |-> options.days, maxTasks |-> options.maxTasks]
    /\ opt' = IF IsValidObjectId(userId) THEN OptAt("tasks")
              ELSE Reject(OptAt("tasks"), "Invalid user ID format")

\* ---------------------------------------------------------------- actions
\* as TasksFetched, but the model is asked even about no candidate
TasksFetchedAlwaysAsks ==
    /\ opt.at = "tasks"
    /\ opt' = [opt EXCEPT !.at = "context", !.fetched = TRUE,
                          !.pendingTasks =
                              SelectCandidates(RetrieveUserTasks(store, args.userId),
                                  OrDefault(args.maxTasks, DefaultMaxTasks))]
    /\ UNCHANGED <<page, apply, store, users, env, pc, args, timer, winner,
                   handlers, unhandled, providerCalls, responses>>

\* the tasks arrive: filter, sort, slice; no candidate ends the call here,
\* otherwise the prompt is built and chatWithOrganizer reads the context
TasksFetched ==
    /\ opt.at = "tasks"
    /\ LET tasks == RetrieveUserTasks(store, args.userId)
           maxTasks == OrDefault(args.maxTasks, DefaultMaxTasks)
           pendingTasks == SelectCandidates(tasks, maxTasks)
       IN IF pendingTasks = <<>>
          THEN /\ opt' = Resolve([opt EXCEPT !.fetched = TRUE],
                               Outcome(FALSE, NoPendingMessage, <<>>, <<>>))
               /\ Settles("optimization", FALSE)
          ELSE /\ opt' = [opt EXCEPT !.at = "context", !.fetched = TRUE,
                                     !.pendingTasks = pendingTasks]
               /\ UNCHANGED <<winner, unhandled>>
    /\ UNCHANGED <<page, apply, store, users, env, pc, args, timer, handlers,
                   providerCalls, responses>>

\* a read of the store fails
StoreFails ==
    /\ \/ opt.at = "tasks"
       \/ opt.at = "context" /\ "pending" \in {opt.user, opt.tasks}
    /\ opt' = Reject(opt, "store error")
    /\ Settles("optimization", TRUE)
    /\ UNCHANGED <<page, apply, store, users, env, pc, args, timer, handlers,
                   providerCalls, responses>>

\* retrieveUserData resolves: the user's record, or null when there is none
UserDataRetrieved ==
    /\ opt.at = "context"
    /\ opt.user = "pending"
    /\ opt' = [opt EXCEPT !.user = IF args.userId \in users THEN args.userId
                                   ELSE "null"]
    /\ UNCHANGED <<page, apply, store, users, env, pc, args, timer, winner,
                   handlers, unhandled, providerCalls, responses>>

\* retrieveUserTasks resolves inside retrieveCompleteContext
UserTasksRetrieved(instants) ==
    /\ opt.at = "context"
    /\ opt.tasks = "pending"
    /\ \E now \in instants :
         opt' = [opt EXCEPT !.tasks = "read", !.now = now,
                            !.taskContexts =
                                TaskContexts(store, args.userId, now)]
    /\ UNCHANGED <<page, apply, store, users, env, pc, args, timer, winner,
                   handlers, unhandled, providerCalls, responses>>

\* the backend chatWithOrganizer calls for a provider name
Backend(provider) == IF provider = "langchain" THEN "langchain" ELSE "openrouter"

\* as ProviderCall, but the messages of the earlier calls are sent again
ProviderCallWithHistory(provider) ==
    [provider |-> Backend(provider), call |-> args.n,
     messages |-> <<"system">>
                  \o [k \in 1..Len(providerCalls) |-> providerCalls[k].messages[2]]
                  \o <<args.message>>]

\* the request a backend gets: the system prompt and the user message
ProviderCall(provider) ==
    [provider |-> Backend(provider), call |-> args.n,
     messages |-> <<"system", args.message>>]

\* as ContextRetrieved, but a context is returned for a user that is not there
ContextRetrievedUnchecked ==
    /\ opt.at = "context"
    /\ opt.user # "pending" /\ opt.tasks = "read"
    /\ LET provider == Or(args.provider, GetPreferredAIProvider(env))
           context == Context(opt.user, opt.taskContexts)
       IN IF args.op = "retrieveCompleteContext"
          THEN /\ opt' = Resolve([opt EXCEPT !.context = context], NoResult)
               /\ Settles("optimization", FALSE)
               /\ UNCHANGED providerCalls
          ELSE IF provider = ""
          THEN /\ opt' = Reject([opt EXCEPT !.context = context],
                                "No AI provider configured")
               /\ Settles("optimization", TRUE)
               /\ UNCHANGED providerCalls
          ELSE /\ opt' = [opt EXCEPT !.at = "provider", !.context = context]
               /\ providerCalls' = Append(providerCalls, ProviderCall(provider))
               /\ UNCHANGED <<winner, unhandled>>
    /\ UNCHANGED <<page, apply, store, users, env, pc, args, timer, handlers,
                   responses>>

\* Promise.all resolved, the context is there: the user must exist; for
\* chatWithOrganizer a provider is then chosen and its backend called
ContextRetrieved ==
    /\ opt.at = "context"
    /\ opt.user # "pending" /\ opt.tasks = "read"
    /\ LET provider == Or(args.provider, GetPreferredAIProvider(env))
           context == Context(opt.user, opt.taskContexts)
       IN IF opt.user = "null"
          THEN /\ opt' = Reject(opt, "User not found")
               /\ Settles("optimization", TRUE)
               /\ UNCHANGED providerCalls
          ELSE IF args.op = "retrieveCompleteContext"
          THEN /\ opt' = Resolve([opt EXCEPT !.context = context], NoResult)
               /\ Settles("optimization", FALSE)
               /\ UNCHANGED providerCalls
          ELSE IF provider = ""
          THEN /\ opt' = Reject([opt EXCEPT !.context = context],
                                "No AI provider configured")
               /\ Settles("optimization", TRUE)
               /\ UNCHANGED providerCalls
          ELSE /\ opt' = [opt EXCEPT !.at = "provider", !.context = context]
               /\ providerCalls' = Append(providerCalls, ProviderCall(provider))
               /\ UNCHANGED <<winner, unhandled>>
    /\ UNCHANGED <<page, apply, store, users, env, pc, args, timer, handlers,
                   responses>>

\* as ProviderReplies, but the suggested priorities are written to the store
ProviderRepliesApplied(replies) ==
    /\ opt.at = "provider"
    /\ \E aiResponse \in replies :
         LET r == IF args.op = "optimizeWorkload"
                  THEN ExtractRecommendations(aiResponse, opt.pendingTasks)
                  ELSE NoResult
             Suggested(t) == {r.recommendations[j].suggestedPriority :
                                 j \in {k \in 1..Len(r.recommendations) :
                                           r.recommendations[k].taskId = t.id}}
                             \ {""}
         IN /\ opt' = IF r.threw
                      THEN Reject([opt EXCEPT !.aiResponse = aiResponse],
                                  "extraction error")
                      ELSE Resolve([opt EXCEPT !.aiResponse = aiResponse], r)
            /\ Settles("optimization", r.threw)
            /\ store' = [i \in DOMAIN store |->
                            IF Suggested(store[i]) = {} THEN store[i]
                            ELSE [store[i] EXCEPT !.priority =
                                     CHOOSE q \in Suggested(store[i]) : TRUE]]
    /\ UNCHANGED <<page, apply, users, env, pc, args, timer, handlers,
                   providerCalls, responses>>

\* the provider answers: chatWithOrganizer returns the text, and the rest of
\* optimizeWorkload runs to its return
ProviderReplies(replies) ==
    /\ opt.at = "provider"
    /\ \E aiResponse \in replies :
         LET r == IF args.op = "optimizeWorkload"
                  THEN ExtractRecommendations(aiResponse, opt.pendingTasks)
                  ELSE NoResult
         IN /\ opt' = IF r.threw
                      THEN Reject([opt EXCEPT !.aiResponse = aiResponse],
                                  "extraction error")
                      ELSE Resolve([opt EXCEPT !.aiResponse = aiResponse], r)
            /\ Settles("optimization", r.threw)
    /\ UNCHANGED <<page, apply, store, users, env, pc, args, timer, handlers,
                   providerCalls, responses>>

\* as ProviderError, but the backend is called once more
ProviderErrorRetried(message) ==
    /\ opt' = opt
    /\ providerCalls' = Append(providerCalls, providerCalls[Len(providerCalls)])
    /\ UNCHANGED <<winner, unhandled>>

\* the awaited backend call threw: testAIProvider reports it in its
\* result, every other caller lets it through
ProviderError(message) ==
    /\ IF args.op = "testAIProvider"
       THEN /\ opt' = Resolve([opt EXCEPT !.error = message], NoResult)
            /\ Settles("optimization", FALSE)
       ELSE /\ opt' = Reject(opt, message)
            /\ Settles("optimization", TRUE)
    /\ UNCHANGED providerCalls

\* the provider call fails
ProviderFails ==
    /\ opt.at = "provider"
    /\ ProviderError("provider error")
    /\ UNCHANGED <<page, apply, store, users, env, pc, args, timer, handlers,
                   responses>>

\* OpenRouter returns an empty completion
OpenRouterRepliesEmpty ==
    /\ opt.at = "provider"
    /\ providerCalls[Len(providerCalls)].provider = "openrouter"
    /\ ProviderError("No response from OpenRouter AI model")
    /\ UNCHANGED <<page, apply, store, users, env, pc, args, timer, handlers,
                   responses>>

\* askLVLBot returns an empty completion
LangchainRepliesEmpty ==
    /\ opt.at = "provider"
    /\ providerCalls[Len(providerCalls)].provider = "langchain"
    /\ ProviderError("No response from AI model")
    /\ UNCHANGED <<page, apply, store, users, env, pc, args, timer, handlers,
                   responses>>

\* optimizeWorkload called by something other than the route
CallOptimizeWorkload(userIds, limits) ==
    /\ pc = "idle"
    /\ pc' = "direct"
    /\ handlers' = {"optimization"}
    /\ \E userId \in userIds, maxTasks \in limits :
         StartOptimize(userId, [route |-> "", provider |-> "",
                                days |-> NaNNum, maxTasks |-> maxTasks])
    /\ UNCHANGED <<page, apply, store, users, env, timer, winner, unhandled,
                   providerCalls, responses>>

\* a response: its status and the members of its JSON body.  keys are the
\* members the body has; a member the body lacks holds its empty value here.
Response(status, success, error, result, days, maxTasks) ==
    [status |-> status, success |-> success, error |-> error,
     analysis |-> result.analysis, recommendations |-> result.recommendations,
     summary |-> result.summary, days |-> days, maxTasks |-> maxTasks,
     updated |-> 0, updatedTasks |-> <<>>, errors |-> <<>>, text |-> <<>>,
     keys |-> IF success
              THEN {"success", "analysis", "recommendations", "summary", "metadata"}
              ELSE IF status = 401 THEN {"success", "message"}
              ELSE {"success", "message", "error"}]

\* GET /workload-optimization up to its await of the race
RouteRequest(queries) ==
    /\ pc = "idle"
    /\ \E authenticated \in BOOLEAN, daysQ \in {NoParam, Param(Num(3))},
          maxTasksQ \in queries :
         LET days == QueryInt(daysQ, DefaultDays)
             maxTasks == QueryInt(maxTasksQ, DefaultMaxTasks)
         IN IF ~authenticated
            THEN /\ responses' = Append(responses,
                        Response(401, FALSE, "User not authenticated", NoResult,
                                 NaNNum, NaNNum))
                 /\ pc' = "responded"
                 /\ UNCHANGED <<args, opt, timer, handlers>>
            ELSE /\ StartOptimize(User, [route |-> "workload-optimization",
                                         provider |-> "", days |-> days,
                                         maxTasks |-> maxTasks])
                 /\ timer' = "armed"
                 /\ handlers' = {"optimization", "timeout"}
                 /\ pc' = "racing"
                 /\ UNCHANGED responses
    /\ UNCHANGED <<page, apply, store, users, env, winner, unhandled,
                   providerCalls>>

\* as TimerFires, but the timer's promise is not one the route races
TimerFiresUnraced ==
    /\ timer = "armed"
    /\ timer' = "fired"
    /\ UNCHANGED <<page, apply, store, users, env, pc, args, opt, winner,
                   handlers, unhandled, providerCalls, responses>>

\* the 30 second timer fires: timeoutPromise rejects
TimerFires ==
    /\ timer = "armed"
    /\ timer' = "fired"
    /\ Settles("timeout", TRUE)
    /\ UNCHANGED <<page, apply, store, users, env, pc, args, opt, handlers,
                   providerCalls, responses>>

\* as Respond, but a response is sent for each promise that settles
RespondToEach ==
    /\ pc \in {"racing", "responded"}
    /\ Len(responses) < Cardinality({"timeout" : x \in {timer} \cap {"fired"}}
                             \cup {"optimization" :
                                      x \in {opt.at} \cap {"resolved", "rejected"}})
    /\ pc' = "responded"
    /\ responses' = Append(responses,
          IF opt.at = "resolved" /\ Len(responses) = 0 /\ winner = "optimization"
          THEN Response(200, TRUE, "", opt.result, args.days, args.maxTasks)
          ELSE Response(500, FALSE,
                        IF winner = "timeout" THEN TimeoutMessage ELSE opt.error,
                        NoResult, NaNNum, NaNNum))
    /\ UNCHANGED <<page, apply, store, users, env, args, opt, timer, winner,
                   handlers, unhandled, providerCalls>>

\* the race has settled: the handler sends its response
Respond ==
    /\ pc = "racing"
    /\ winner # "none"
    /\ pc' = "responded"
    /\ responses' = Append(responses,
          IF winner = "optimization" /\ opt.at = "resolved"
          THEN Response(200, TRUE, "", opt.result, args.days, args.maxTasks)
          ELSE Response(500, FALSE,
                        IF winner = "timeout" THEN TimeoutMessage ELSE opt.error,
                        NoResult, NaNNum, NaNNum))
    /\ UNCHANGED <<page, apply, store, users, env, args, opt, timer, winner,
                   handlers, unhandled, providerCalls>>


\* ------------------------------------ POST /apply-workload-optimization
\* req.body: whether recommendations is an array, and its entries
Body(isArray, recommendations) ==
    [isArray |-> isArray, recommendations |-> recommendations]

ApplyAt(at) == [at |-> at, userId |-> "", recommendations |-> <<>>, i |-> 0,
                task |-> NoTask, updatedTasks |-> <<>>, errors_list |-> <<>>]

\* the result of the two validation chains, as errors.array()
ValidationErrors(body) ==
    (IF body.isArray THEN <<>> ELSE <<"Recommendations must be an array">>)
    \o (IF \E i \in 1..Len(body.recommendations) :
              body.recommendations[i].taskId = ""
        THEN <<"Task ID is required">> ELSE <<>>)

NotFoundError(taskId) == <<"Task", taskId, "not found">>
FailedError(taskId, message) == <<"Failed to update task", taskId, message>>

\* as FindOne, but the filter carries no userId
FindOneAnyOwner(st, taskId, userId) ==
    LET hits == {i \in 1..Len(st) : st[i].id = taskId}
    IN IF hits = {} THEN NoTask ELSE st[SetMin(hits)]

\* Task.findOne({ _id: taskId, userId: userId }); NoTask when it gives null
FindOne(st, taskId, userId) ==
    LET hits == {i \in 1..Len(st) : st[i].id = taskId /\ st[i].owner = userId}
    IN IF hits = {} THEN NoTask ELSE st[SetMin(hits)]

\* as UpdateData, but both fields are always part of the update
UpdateDataWhole(rec) ==
    [dueDate |-> IF rec.suggestedDueDate # ""
                 THEN {ParseDate(rec.suggestedDueDate)} ELSE {NoDate},
     priority |-> IF rec.suggestedPriority # ""
                  THEN {rec.suggestedPriority} ELSE {"medium"}]

\* updateData: each field is the set of the value it carries, empty when the
\* key is not set
UpdateData(rec) ==
    [dueDate |-> IF rec.suggestedDueDate # ""
                 THEN {ParseDate(rec.suggestedDueDate)} ELSE {},
     priority |-> IF rec.suggestedPriority # ""
                  THEN {rec.suggestedPriority} ELSE {}]

\* Object.keys(updateData).length > 0
HasKeys(updateData) == updateData.dueDate # {} \/ updateData.priority # {}

\* the update casts an Invalid Date and fails
CastFails(updateData) == InvalidDate \in updateData.dueDate

\* Task.findByIdAndUpdate(taskId, updateData, { new: true }): the store after
\* it; the fields updateData carries are set, validators do not run
FindByIdAndUpdate(st, taskId, updateData) ==
    LET Updated(t) ==
          [t EXCEPT !.dueDate = IF updateData.dueDate = {} THEN @
                                ELSE CHOOSE d \in updateData.dueDate : TRUE,
                    !.priority = IF updateData.priority = {} THEN @
                                 ELSE CHOOSE q \in updateData.priority : TRUE]
    IN [i \in DOMAIN st |-> IF st[i].id = taskId THEN Updated(st[i]) ELSE st[i]]

\* what findByIdAndUpdate resolves to: the id of the document, "null" if none
UpdatedTask(st, taskId) ==
    IF \E i \in 1..Len(st) : st[i].id = taskId THEN taskId ELSE "null"

ApplyResponse(a) ==
    [Response(200, TRUE, "", NoResult, NaNNum, NaNNum)
       EXCEPT !.updated = Len(a.updatedTasks),
              !.errors = a.errors_list,
              !.keys = {"success", "updated", "message"}
                       \cup (IF a.errors_list # <<>> THEN {"errors"} ELSE {})]

InvalidResponse(errors) ==
    [Response(400, FALSE, "", NoResult, NaNNum, NaNNum)
       EXCEPT !.errors = errors, !.keys = {"success", "errors"}]

\* as NextEntry, but the loop ends at the first entry that failed
NextEntryStopsOnError(a) ==
    IF a.i >= Len(a.recommendations) \/ a.errors_list # <<>>
    THEN /\ apply' = [a EXCEPT !.at = "responded"]
         /\ responses' = Append(responses, ApplyResponse(a))
    ELSE /\ apply' = [a EXCEPT !.at = "lookup", !.i = a.i + 1]
         /\ UNCHANGED responses

\* the loop moves on from entry i of a: to the findOne of the next entry,
\* or past the last one to the response
NextEntry(a) ==
    IF a.i >= Len(a.recommendations)
    THEN /\ apply' = [a EXCEPT !.at = "responded"]
         /\ responses' = Append(responses, ApplyResponse(a))
    ELSE /\ apply' = [a EXCEPT !.at = "lookup", !.i = a.i + 1]
         /\ UNCHANGED responses

\* the handler up to its first await: validation, authentication, and the
\* loop up to the findOne of the first entry
ApplyRequest(callers, bodies) ==
    /\ apply.at = "none"
    /\ \E caller \in callers, body \in bodies :
         IF ValidationErrors(body) # <<>>
         THEN /\ responses' = Append(responses,
                                     InvalidResponse(ValidationErrors(body)))
              /\ apply' = [ApplyAt("responded") EXCEPT
                               !.userId = caller,
                               !.recommendations = body.recommendations]
         ELSE IF caller = ""
         THEN /\ responses' = Append(responses,
                     Response(401, FALSE, "User not authenticated", NoResult,
                              NaNNum, NaNNum))
              /\ apply' = [ApplyAt("responded") EXCEPT
                               !.recommendations = body.recommendations]
         ELSE NextEntry([ApplyAt("lookup") EXCEPT
                            !.userId = caller,
                            !.recommendations = body.recommendations])
    /\ UNCHANGED <<page, store, users, env, pc, args, opt, timer, winner,
                   handlers, unhandled, providerCalls>>

\* findOne resolves: not found is an error of the entry; an entry that
\* carries nothing is passed over; otherwise the update is sent
TaskLookedUp ==
    /\ apply.at = "lookup"
    /\ LET rec == apply.recommendations[apply.i]
           task == FindOne(store, rec.taskId, apply.userId)
           Failed(error) ==
               NextEntry([apply EXCEPT !.errors_list = Append(@, error)])
       IN IF ~IsValidObjectId(rec.taskId)
          THEN Failed(FailedError(rec.taskId, "Cast to ObjectId failed"))
          ELSE IF task = NoTask THEN Failed(NotFoundError(rec.taskId))
          ELSE IF ~HasKeys(UpdateData(rec)) THEN NextEntry(apply)
          ELSE /\ apply' = [apply EXCEPT !.at = "update", !.task = task]
               /\ UNCHANGED responses
    /\ UNCHANGED <<page, store, users, env, pc, args, opt, timer, winner,
                   handlers, unhandled, providerCalls>>

\* findByIdAndUpdate resolves: what it returned is pushed, null included
TaskUpdated ==
    /\ apply.at = "update"
    /\ LET rec == apply.recommendations[apply.i]
           updateData == UpdateData(rec)
       IN IF CastFails(updateData)
          THEN /\ NextEntry([apply EXCEPT !.errors_list =
                     Append(@, FailedError(rec.taskId, "Cast to date failed"))])
               /\ UNCHANGED store
          ELSE /\ store' = FindByIdAndUpdate(store, rec.taskId, updateData)
               /\ NextEntry([apply EXCEPT !.updatedTasks =
                     Append(@, UpdatedTask(store, rec.taskId))])
    /\ UNCHANGED <<page, users, env, pc, args, opt, timer, winner, handlers,
                   unhandled, providerCalls>>

\* a call of the store fails: the entry's catch records it
ApplyStoreFails ==
    /\ apply.at \in {"lookup", "update"}
    /\ NextEntry([apply EXCEPT !.errors_list =
           Append(@, FailedError(apply.recommendations[apply.i].taskId,
                                 "store error"))])
    /\ UNCHANGED <<page, store, users, env, pc, args, opt, timer, winner,
                   handlers, unhandled, providerCalls>>

\* another request deletes the task the handler is about to update
TaskDeleted ==
    /\ apply.at = "update"
    /\ LET Other(t) == t.id # apply.recommendations[apply.i].taskId
       IN store' = SelectSeq(store, Other)
    /\ store' # store
    /\ UNCHANGED <<page, users, env, pc, args, opt, timer, winner, handlers,
                   unhandled, providerCalls, responses, apply>>


\* --------------------------------------------- the other agent functions
\* a caller that awaits the agent may call it again once it has settled
CanCall ==
    \/ pc = "idle"
    \/ pc = "direct" /\ opt.at \in {"resolved", "rejected"} /\ args.n < MaxCalls

\* retrieveCompleteContext up to its await of Promise.all: both reads are
\* issued; a malformed id makes them reject before they read anything
StartContext(op, route, userId, provider, message) ==
    /\ args' = [NoArgs EXCEPT !.op = op, !.route = route, !.n = args.n + 1,
                              !.userId = userId, !.provider = provider,
                              !.message = message]
    /\ opt' = IF IsValidObjectId(userId) THEN OptAt("context")
              ELSE Reject(OptAt("context"), "Invalid user ID format")
    /\ UNCHANGED providerCalls

\* testAIProvider up to its await of the backend: with no provider to
\* select, the catch block selects again and throws
StartTestProvider(route, provider) ==
    LET selectedProvider == Or(provider, GetPreferredAIProvider(env))
        called == [NoArgs EXCEPT !.op = "testAIProvider", !.route = route,
                                 !.n = args.n + 1, !.provider = provider,
                                 !.message = "hello"]
    IN /\ args' = called
       /\ IF selectedProvider = ""
          THEN /\ opt' = Reject(OptAt("provider"), "No AI provider configured")
               /\ UNCHANGED providerCalls
          ELSE /\ opt' = OptAt("provider")
               /\ providerCalls' = Append(providerCalls,
                     [provider |-> Backend(selectedProvider),
                      call |-> called.n, messages |-> <<"system", "hello">>])

\* chatWithOrganizer called by something other than a route
CallChatWithOrganizer(userIds, providers, messages) ==
    /\ CanCall
    /\ pc' = "direct"
    /\ handlers' = {"optimization"}
    /\ \E userId \in userIds, provider \in providers, message \in messages :
         StartContext("chatWithOrganizer", "", userId, provider, message)
    /\ UNCHANGED <<page, apply, store, users, env, timer, winner, unhandled,
                   responses>>

\* retrieveCompleteContext called by something other than a route
CallRetrieveCompleteContext(userIds) ==
    /\ CanCall
    /\ pc' = "direct"
    /\ handlers' = {"optimization"}
    /\ \E userId \in userIds :
         StartContext("retrieveCompleteContext", "", userId, "", "")
    /\ UNCHANGED <<page, apply, store, users, env, timer, winner, unhandled,
                   responses>>

\* the routes that await one agent function and answer with what it gave
AgentEndpoints ==
    {"chat", "suggestions", "daily-plan", "productivity-analysis",
     "motivation", "context", "test-provider", "breakdown-task"}

\* the member of a successful body that carries the result
ResultKey(route) ==
    CASE route = "chat" -> "response"
      [] route = "suggestions" -> "suggestions"
      [] route = "daily-plan" -> "plan"
      [] route = "productivity-analysis" -> "analysis"
      [] route = "motivation" -> "motivation"
      [] route = "context" -> "context"
      [] route = "test-provider" -> "testResult"
      [] OTHER -> "breakdown"

SuccessKeys(route) ==
    {"success", ResultKey(route)}
    \cup (IF route = "context" THEN {"formattedContext"} ELSE {"metadata"})

\* a route handler up to its await of the agent: validation (chat and
\* breakdown-task), the userId check (not test-provider), the call
AgentRequest(endpoints, providers) ==
    /\ pc = "idle"
    /\ \E route \in endpoints, valid \in BOOLEAN, authenticated \in BOOLEAN,
          provider \in providers :
         IF route \in {"chat", "breakdown-task"} /\ ~valid
         THEN /\ responses' = Append(responses,
                    InvalidResponse(<<"Message is required">>))
              /\ pc' = "responded"
              /\ UNCHANGED <<args, opt, handlers, providerCalls>>
         ELSE IF route # "test-provider" /\ ~authenticated
         THEN /\ responses' = Append(responses,
                    Response(401, FALSE, "User not authenticated", NoResult,
                             NaNNum, NaNNum))
              /\ pc' = "responded"
              /\ UNCHANGED <<args, opt, handlers, providerCalls>>
         ELSE /\ pc' = "awaiting"
              /\ handlers' = {"optimization"}
              /\ UNCHANGED responses
              /\ CASE route = "test-provider" -> StartTestProvider(route, provider)
                   [] route = "context" ->
                        StartContext("retrieveCompleteContext", route, User, "", "")
                   [] route = "chat" ->
                        StartContext("chatWithOrganizer", route, User, provider,
                                     "message")
                   [] OTHER ->
                        StartContext("chatWithOrganizer", route, User, "", route)
    /\ UNCHANGED <<page, apply, store, users, env, timer, winner, unhandled>>

\* the agent function settled: the handler sends 200 with the result, or
\* its catch block sends 500 with the error's message
RouteResponds ==
    /\ pc = "awaiting"
    /\ opt.at \in {"resolved", "rejected"}
    /\ pc' = "responded"
    /\ responses' = Append(responses,
          IF opt.at = "resolved"
          THEN [Response(200, TRUE, "", NoResult, NaNNum, NaNNum)
                  EXCEPT !.keys = SuccessKeys(args.route),
                         !.text = opt.aiResponse]
          ELSE Response(500, FALSE, opt.error, NoResult, NaNNum, NaNNum))
    /\ UNCHANGED <<page, apply, store, users, env, args, opt, timer, winner,
                   handlers, unhandled, providerCalls>>

\* GET /health: the body is the health record
HealthResponse ==
    [Response(200, FALSE, "", NoResult, NaNNum, NaNNum)
       EXCEPT !.keys = {"status", "timestamp", "service", "model", "providers",
                        "features"}]

HealthRequest ==
    /\ pc = "idle"
    /\ pc' = "responded"
    /\ responses' = Append(responses, HealthResponse)
    /\ UNCHANGED <<page, apply, store, users, env, args, opt, timer, winner,
                   handlers, unhandled, providerCalls>>


\* ------------------------------------------------------ the workload page
\* WorkloadOptimizationPage: the useState values as first rendered.
\* requests counts the requests the page has sent; lastRun records how the
\* last optimization run ended ("none" before any has ended).
PageAtMount ==
    [recommendations |-> <<>>, loading |-> FALSE, applying |-> FALSE,
     error |-> "", success |-> <<>>, selectedRecommendations |-> {},
     posted |-> <<>>, redirect |-> "unset", mounted |-> TRUE,
     requests |-> 0, lastRun |-> "none"]

NoneFoundMessage == "No optimization recommendations found."
SelectOneMessage == "Please select at least one recommendation to apply"

\* recs.map(r => r.taskId) as a Set
TaskIdsOf(recs) == {recs[i].taskId : i \in 1..Len(recs)}

\* `Successfully updated ${n} task(s)`
SuccessMessage(n) == <<"Successfully updated", n, "task(s)">>

\* response.updatedTasks?.length || 0
UpdatedTasksLength(response) ==
    IF "updatedTasks" \in response.keys THEN Len(response.updatedTasks) ELSE 0

\* the card "No Changes Needed" is rendered
NoChangesNeededShown ==
    /\ page.mounted
    /\ Len(page.recommendations) = 0 /\ ~page.loading /\ page.error = ""

\* the recommendations table, with its rows and buttons, is rendered
TableShown == page.mounted /\ Len(page.recommendations) > 0

\* as HandleOptimize, but the selection is left as it is
HandleOptimizeKeepsSelection ==
    /\ page.mounted /\ ~page.loading
    /\ page.requests < MaxRequests
    /\ page' = [page EXCEPT !.loading = TRUE, !.error = "", !.success = <<>>,
                            !.recommendations = <<>>,
                            !.requests = @ + 1]
    /\ UNCHANGED <<store, users, env, pc, args, opt, timer, winner, handlers,
                   unhandled, providerCalls, responses, apply>>

\* handleOptimize up to its await: the button is disabled while loading
HandleOptimize ==
    /\ page.mounted /\ ~page.loading
    /\ page.requests < MaxRequests
    /\ page' = [page EXCEPT !.loading = TRUE, !.error = "", !.success = <<>>,
                            !.recommendations = <<>>,
                            !.selectedRecommendations = {},
                            !.requests = @ + 1]
    /\ UNCHANGED <<store, users, env, pc, args, opt, timer, winner, handlers,
                   unhandled, providerCalls, responses, apply>>

\* the response of the optimization request arrives: the recommendations
\* are stored and all selected, none is reported as an error, and a failed
\* request shows its message
OptimizeResponds(results, failures) ==
    /\ page.mounted /\ page.loading
    /\ \/ \E recs \in results :
            page' = [page EXCEPT
                        !.recommendations = recs,
                        !.selectedRecommendations =
                            IF Len(recs) > 0 THEN TaskIdsOf(recs) ELSE @,
                        !.error = IF Len(recs) > 0 THEN @ ELSE NoneFoundMessage,
                        !.loading = FALSE,
                        !.lastRun = IF Len(recs) > 0 THEN "found" ELSE "empty"]
       \/ \E message \in failures :
            page' = [page EXCEPT !.error = message, !.loading = FALSE,
                                 !.lastRun = "failed"]
    /\ UNCHANGED <<store, users, env, pc, args, opt, timer, winner, handlers,
                   unhandled, providerCalls, responses, apply>>

\* a click on the row of a displayed recommendation
HandleToggleRecommendation ==
    /\ TableShown
    /\ \E taskId \in TaskIdsOf(page.recommendations) :
         page' = [page EXCEPT !.selectedRecommendations =
                     IF taskId \in @ THEN @ \ {taskId} ELSE @ \cup {taskId}]
    /\ UNCHANGED <<store, users, env, pc, args, opt, timer, winner, handlers,
                   unhandled, providerCalls, responses, apply>>

SelectAll ==
    /\ TableShown
    /\ page' = [page EXCEPT !.selectedRecommendations =
                                TaskIdsOf(page.recommendations)]
    /\ UNCHANGED <<store, users, env, pc, args, opt, timer, winner, handlers,
                   unhandled, providerCalls, responses, apply>>

DeselectAll ==
    /\ TableShown
    /\ page' = [page EXCEPT !.selectedRecommendations = {}]
    /\ UNCHANGED <<store, users, env, pc, args, opt, timer, winner, handlers,
                   unhandled, providerCalls, responses, apply>>

\* handleApplyChanges up to its await: nothing selected is an error and no
\* request; otherwise the selected recommendations are posted
HandleApplyChanges ==
    /\ TableShown /\ ~page.applying
    /\ page.requests < MaxRequests
    /\ IF page.selectedRecommendations = {}
       THEN page' = [page EXCEPT !.error = SelectOneMessage]
       ELSE LET Selected(r) == r.taskId \in page.selectedRecommendations
            IN page' = [page EXCEPT
                           !.applying = TRUE, !.error = "", !.success = <<>>,
                           !.posted = <<SelectSeq(page.recommendations, Selected)>>,
                           !.requests = @ + 1]
    /\ UNCHANGED <<store, users, env, pc, args, opt, timer, winner, handlers,
                   unhandled, providerCalls, responses, apply>>

\* the posted recommendations reach POST /apply-workload-optimization
ApplyPosted(callers) ==
    /\ page.posted # <<>>
    /\ ApplyRequest(callers, {Body(TRUE, page.posted[1])})

\* the response of the apply request arrives: a 2xx body gives the success
\* message and arms the redirect, any other status the error message
ApplyResponds ==
    /\ page.mounted /\ page.applying /\ apply.at = "responded"
    /\ LET response == responses[Len(responses)]
       IN IF response.status = 200
          THEN page' = [page EXCEPT
                           !.success = SuccessMessage(UpdatedTasksLength(response)),
                           !.redirect = "armed",
                           !.applying = FALSE, !.posted = <<>>]
          ELSE page' = [page EXCEPT
                           !.error = Or(response.error,
                                        "Failed to apply workload optimization"),
                           !.applying = FALSE, !.posted = <<>>]
    /\ apply' = ApplyAt("none")
    /\ UNCHANGED <<store, users, env, pc, args, opt, timer, winner, handlers,
                   unhandled, providerCalls, responses>>

\* two seconds after a success: router.push('/tasks') leaves the page
RedirectFires ==
    /\ page.mounted /\ page.redirect = "armed"
    /\ page' = [page EXCEPT !.redirect = "fired", !.mounted = FALSE]
    /\ UNCHANGED <<store, users, env, pc, args, opt, timer, winner, handlers,
                   unhandled, providerCalls, responses, apply>>


\* ----------------------------------------------------------------- inputs
\* model replies: pieces of text put one after the other
ObjectText(entries) ==
    LET EntryText(e) == IF e.shape = "null" THEN <<Tok("null")>>
                        ELSE <<Tok("{"), BodyTok(e), Tok("}")>>
    IN <<Tok("{"), Tok("key"), Tok("[")>>
       \o FlattenSeq([i \in 1..Len(entries) |-> EntryText(entries[i])])
       \o <<Tok("]"), Tok("}")>>

Fenced(text) == <<Tok("fence")>> \o text \o <<Tok("fence")>>
Around(text) == <<Tok("txt")>> \o text \o <<Tok("txt")>>

RichEntries ==
    {NullEntry} \cup
    {Entry("obj", id, cd, cp, sd, sp) :
        id \in {"A", "B", "C", ""}, cd \in {"", "2024-01-02"},
        cp \in {"", "low"},
        sd \in {"", "not-a-date", "2024-01-01", "2024-01-02"},
        sp \in {"", "low", "HIGH", "asap"}}

CoreEntries ==
    {NullEntry} \cup
    {Entry("obj", id, "", "", sd, sp) :
        id \in {"A", "B", "C"}, sd \in {"", "2024-01-02"}, sp \in {"", "low"}}

\* every array of one entry, and the longer arrays of the core entries
EntryLists ==
    [1..1 -> RichEntries] \cup SeqsUpTo(CoreEntries, MaxEntries)

MovesA == Entry("obj", "A", "", "", "2024-01-02", "low")

Chunks ==
    {<<Tok(k)>> : k \in {"txt", "fence", "{", "}", "key"}} \cup
    {ObjectText(<<>>), ObjectText(<<MovesA>>),
     <<Tok("{"), Tok("pair"), Tok("}")>>,
     <<Tok("{"), Tok("key"), Tok("null"), Tok("}")>>}

\* any text of a few pieces, and every entry list bare, fenced, in prose
ShapedReplies == {FlattenSeq(cs) : cs \in SeqsUpTo(Chunks, MaxChunks) \ {<<>>}}
ListReplies ==
    UNION {{ObjectText(l), Fenced(ObjectText(l)), Around(Fenced(ObjectText(l)))} :
              l \in EntryLists}
ExtractReplies == ShapedReplies \cup ListReplies

RouteReplies ==
    {<<Tok("txt")>>, ObjectText(<<MovesA>>), Fenced(ObjectText(<<MovesA>>)),
     Around(Fenced(ObjectText(<<MovesA, NullEntry>>)))}
SortReplies == {<<Tok("txt")>>}

\* the time of a request: day 1, after midnight
Morning == Midnight(1) + 1

\* stores
TaskA == Task("A", User, "high", "pending", Midnight(1) + 1)
TaskB == Task("B", User, "low", "in-progress", NoDate)
TaskC == Task("C", User, "urgent", "completed", Midnight(2))
TaskX == Task("X", "u2", "urgent", "pending", Midnight(1))

ExtractStores == {<<TaskC, TaskA, TaskB>>}
\* one pending task more than the default limit
ManyTasks ==
    [i \in 1..(DefaultMaxTasks + 1) |->
        Task("T" \o ToString(i), User, "medium", "pending", NoDate)]
RouteStores == {<<>>, <<TaskC>>, <<TaskX, TaskB, TaskC, TaskA>>, ManyTasks}

IdAt(i) == CASE i = 1 -> "A" [] i = 2 -> "B" [] i = 3 -> "C" [] i = 4 -> "D"
             [] OTHER -> "E"
TaskFields == Priorities \X {"pending", "completed"}
                  \X {NoDate, Midnight(1), Midnight(1) + 1}
SortStore(f) ==
    [i \in DOMAIN f |-> Task(IdAt(i), User, f[i][1], f[i][2], f[i][3])]

\* what is submitted to the apply endpoint: entries naming a task of the
\* caller, of another user, of nobody ("Z"), no ObjectId, or nothing
ApplySuggestions ==
    {<<"", "">>, <<"2024-01-02", "">>, <<"", "low">>, <<"", "asap">>,
     <<"not-a-date", "low">>}
ApplyEntries ==
    {Entry("obj", id, "", "", sug[1], sug[2]) :
        id \in {"A", "X", "Z", "bad", ""}, sug \in ApplySuggestions}
ApplyBodies ==
    {Body(TRUE, l) : l \in SeqsUpTo(ApplyEntries, MaxEntries)}
    \cup {Body(FALSE, <<>>)}
ApplyCallers == {"u1", "u2", ""}
ApplyStore == <<TaskA, TaskB, TaskX>>

Envs == {[deepseek |-> TRUE, openrouter |-> TRUE],
         [deepseek |-> FALSE, openrouter |-> TRUE],
         [deepseek |-> FALSE, openrouter |-> FALSE]}

RouteQueries == {NoParam, Param(NaNNum), Param(Num(0)), Param(Num(-1)),
                 Param(Num(1)), Param(Num(2)), Param(Num(DefaultMaxTasks + 1))}

\* ---------------------------------------------------------- specifications
InitWith(userSets, envs) ==
    /\ users \in userSets
    /\ env \in envs
    /\ pc = "idle"
    /\ args = NoArgs
    /\ opt = OptAt("none")
    /\ timer = "unset"
    /\ winner = "none"
    /\ handlers = {}
    /\ unhandled = {}
    /\ providerCalls = <<>>
    /\ responses = <<>>
    /\ apply = ApplyAt("none")
    /\ page = PageAtMount

\* the route, from request to response
Init == store \in RouteStores /\ InitWith({{User}, {}}, Envs)
Next ==
    \/ RouteRequest(RouteQueries)
    \/ TasksFetched
    \/ StoreFails
    \/ UserDataRetrieved
    \/ UserTasksRetrieved({Morning})
    \/ ContextRetrieved
    \/ ProviderReplies(RouteReplies)
    \/ ProviderFails
    \/ TimerFires
    \/ Respond
Spec == Init /\ [][Next]_vars

\* the timer fires and the handler resumes
FairSpec == Spec /\ WF_vars(TimerFires) /\ WF_vars(Respond)

\* optimizeWorkload over stores of every order
InitSort ==
    /\ \E n \in 0..MaxStore : \E f \in [1..n -> TaskFields] : store = SortStore(f)
    /\ InitWith({{User}}, {[deepseek |-> TRUE, openrouter |-> FALSE]})
NextSort ==
    \/ CallOptimizeWorkload({User}, {NaNNum})
    \/ TasksFetched
    \/ UserDataRetrieved
    \/ UserTasksRetrieved({Morning})
    \/ ContextRetrieved
    \/ ProviderReplies(SortReplies)
SpecSort == InitSort /\ [][NextSort]_vars

\* optimizeWorkload over model replies of every shape
InitExtract ==
    /\ store \in ExtractStores
    /\ InitWith({{User}}, {[deepseek |-> TRUE, openrouter |-> FALSE]})
NextExtract ==
    \/ CallOptimizeWorkload({User}, {NaNNum, Num(1)})
    \/ TasksFetched
    \/ UserDataRetrieved
    \/ UserTasksRetrieved({Morning})
    \/ ContextRetrieved
    \/ ProviderReplies(ExtractReplies)
SpecExtract == InitExtract /\ [][NextExtract]_vars

\* the agent's functions called directly, and the routes that await them
AgentUsers == {User, "u3", "bad"}
AgentProviders == {"", "langchain", "openrouter", "gpt"}
AgentReplies == {<<Tok("txt")>>}
AgentEnvs == Envs \cup {[deepseek |-> TRUE, openrouter |-> FALSE]}
InitAgent == store = <<TaskA, TaskX>> /\ InitWith({{User}, {}}, AgentEnvs)
NextAgent ==
    \/ CallChatWithOrganizer(AgentUsers, AgentProviders, {"m1", "m2"})
    \/ CallRetrieveCompleteContext(AgentUsers)
    \/ AgentRequest(AgentEndpoints, AgentProviders)
    \/ HealthRequest
    \/ UserDataRetrieved
    \/ UserTasksRetrieved({Morning})
    \/ StoreFails
    \/ ContextRetrieved
    \/ ProviderReplies(AgentReplies)
    \/ ProviderFails
    \/ OpenRouterRepliesEmpty
    \/ LangchainRepliesEmpty
    \/ RouteResponds
SpecAgent == InitAgent /\ [][NextAgent]_vars

\* the apply endpoint over every submitted array
InitApply ==
    /\ store = ApplyStore
    /\ InitWith({{"u1", "u2"}}, {[deepseek |-> TRUE, openrouter |-> FALSE]})
NextApply ==
    \/ ApplyRequest(ApplyCallers, ApplyBodies)
    \/ TaskLookedUp
    \/ TaskUpdated
    \/ ApplyStoreFails
    \/ TaskDeleted
SpecApply == InitApply /\ [][NextApply]_vars


\* the workload page against the apply endpoint
\* the recommendations a response carries: none, one, two for two tasks,
\* two for one task
RaisesB == Entry("obj", "B", "", "", "", "high")
DelaysA == Entry("obj", "A", "", "", "2024-01-02", "")
PageResults == {<<>>, <<MovesA>>, <<MovesA, RaisesB>>, <<DelaysA, MovesA>>}
PageFailures == {"Request timed out. Try reducing the number of days or tasks.",
                 "Failed to optimize workload"}
InitPage ==
    /\ store = ApplyStore
    /\ InitWith({{User}}, {[deepseek |-> TRUE, openrouter |-> FALSE]})
NextPage ==
    \/ HandleOptimize
    \/ OptimizeResponds(PageResults, PageFailures)
    \/ HandleToggleRecommendation
    \/ SelectAll
    \/ DeselectAll
    \/ HandleApplyChanges
    \/ ApplyPosted({User, ""})
    \/ TaskLookedUp
    \/ TaskUpdated
    \/ ApplyStoreFails
    \/ ApplyResponds
    \/ RedirectFires
SpecPage == InitPage /\ [][NextPage]_vars


\* retrieveCompleteContext over stores of every status and due date, read
\* at several times; the last task of each store is another user's
ContextFields == {"medium"} \X Statuses \X {NoDate, Midnight(1), Midnight(2)}
ContextInstants == {Midnight(1), Morning, Midnight(2) + 1}
InitContext ==
    /\ \E n \in 0..MaxStore : \E f \in [1..n -> ContextFields] :
          store = SortStore(f) \o <<TaskX>>
    /\ InitWith({{User}}, {[deepseek |-> TRUE, openrouter |-> FALSE]})
NextContext ==
    \/ CallRetrieveCompleteContext({User})
    \/ UserDataRetrieved
    \/ UserTasksRetrieved(ContextInstants)
    \/ StoreFails
    \/ ContextRetrieved
SpecContext == InitContext /\ [][NextContext]_vars


\* ------------------------------------------------------------------ claims
Replied == opt.at = "resolved" /\ opt.aiResponse # <<>>
Recs == opt.result.recommendations
CandidateIds == ValidTaskIds(opt.pendingTasks)
StoredTask(id) == store[CHOOSE i \in 1..Len(store) : store[i].id = id]

\* the entries of l that are null or name a candidate
NamingCandidates(l) ==
    LET Keep(e) == e.shape = "null" \/ e.taskId \in CandidateIds
    IN SelectSeq(l, Keep)

\* C1: the task ids of the returned recommendations are ids of candidates
\* offered to the model, and the entries naming anything else are dropped
\* alone: a fenced reply without them yields the same recommendations.
C1_OnlyCandidateIds ==
    Replied =>
        /\ \A i \in 1..Len(Recs) : Recs[i].taskId \in CandidateIds
        /\ LET v == JsonParse(SubSeq(opt.aiResponse, 2, Len(opt.aiResponse) - 1))
           IN (v.ok /\ v.recsArr /\ opt.aiResponse = Fenced(ObjectText(v.recs))) =>
                 Recs = ExtractRecommendations(
                            Fenced(ObjectText(NamingCandidates(v.recs))),
                            opt.pendingTasks).recommendations

\* C1 witness: of two entries, the one naming the completed task C is
\* dropped and the one naming candidate A is returned.
C1_Witness ==
    /\ Replied
    /\ opt.aiResponse = Fenced(ObjectText(
           <<Entry("obj", "C", "", "", "2024-01-02", "low"), MovesA>>))
    /\ Len(Recs) = 1
    /\ Recs[1].taskId = "A"

\* a suggestion that differs from what the store holds
ActualChange(rec, task) ==
    \/ /\ rec.suggestedDueDate # NoDate
       /\ \/ task.dueDate = NoDate
          \/ IsoDay(rec.suggestedDueDate) # IsoDay(task.dueDate)
    \/ /\ rec.suggestedPriority # ""
       /\ ToLowerCase(rec.suggestedPriority) # ToLowerCase(task.priority)

\* C2: every returned recommendation suggests a due date on another day
\* than the stored task's, or a priority other than the stored task's.
C2_RetainedIsActualChange ==
    Replied => \A i \in 1..Len(Recs) :
                  ActualChange(Recs[i], StoredTask(Recs[i].taskId))

\* C3: currentDueDate and currentPriority of every returned recommendation
\* are the stored task's due date and priority.
C3_CurrentFromStore ==
    Replied => \A i \in 1..Len(Recs) :
                  /\ Recs[i].currentDueDate = StoredTask(Recs[i].taskId).dueDate
                  /\ Recs[i].currentPriority = StoredTask(Recs[i].taskId).priority

\* no part of the text is a JSON object
NoJsonObject(s) ==
    \A i \in 1..Len(s) : \A j \in i..Len(s) :
        LET v == JsonParse(SubSeq(s, i, j)) IN ~(v.ok /\ v.t = "obj")

\* C4: whatever the model replied, optimizeWorkload resolves; a reply with
\* no parseable JSON object gives no recommendations and the whole reply as
\* analysis.
C4_ExtractionNeverRaises ==
    opt.aiResponse # <<>> =>
        /\ opt.at = "resolved"
        /\ NoJsonObject(opt.aiResponse) =>
              /\ Recs = <<>>
              /\ opt.result.analysis = opt.aiResponse

\* C4 witness: JSON.parse threw on the matched span of a reply without any
\* JSON object, and the call resolved with the reply as analysis.
C4_Witness ==
    /\ Replied
    /\ TryExtract(opt.aiResponse, opt.pendingTasks).threw
    /\ NoJsonObject(opt.aiResponse)
    /\ opt.result.analysis = opt.aiResponse

\* the first of the three patterns whose span parses
FirstParsing(s) ==
    LET Parses(m) == m.found /\ JsonParse(StripFences(m.span)).ok
    IN IF Parses(CodeBlockMatch(s)) THEN CodeBlockMatch(s)
       ELSE IF Parses(JsonObjectMatch(s)) THEN JsonObjectMatch(s)
       ELSE IF Parses(AnyJsonMatch(s)) THEN AnyJsonMatch(s)
       ELSE NoMatch

\* C5: the recommendations are extracted from the span of the first pattern,
\* in order, whose span parses as JSON.
C5_TriesUntilParseable ==
    Replied =>
        Recs = CatchParseError(
                   ExtractFrom(opt.aiResponse, FirstParsing(opt.aiResponse),
                               opt.pendingTasks),
                   opt.aiResponse).recommendations


Settled == opt.at \in {"resolved", "rejected"}

\* urgent > high > medium > low
Rank(p) == CHOOSE k \in 1..4 : <<"low", "medium", "high", "urgent">>[k] = p
StoreIndex(id) == CHOOSE i \in 1..Len(store) : store[i].id = id

\* C6: in the candidate list a task of higher priority comes first; of two
\* tasks of one priority the earlier due date comes first and a dated task
\* comes before an undated one; tasks equal in both keep the store's order.
C6_StableOrder ==
    opt.fetched =>
        \A i \in 1..Len(opt.pendingTasks) : \A j \in (i + 1)..Len(opt.pendingTasks) :
            LET a == opt.pendingTasks[i]
                b == opt.pendingTasks[j]
            IN /\ Rank(a.priority) >= Rank(b.priority)
               /\ a.priority = b.priority =>
                    /\ b.dueDate # NoDate =>
                          (a.dueDate # NoDate /\ a.dueDate <= b.dueDate)
                    /\ a.dueDate = b.dueDate => StoreIndex(a.id) < StoreIndex(b.id)

\* C6 witness: three candidates of one priority, the store's last one moved
\* to the front by its earlier due date, the two that tie in the store's order.
C6_Witness ==
    /\ opt.fetched
    /\ Len(opt.pendingTasks) = 3
    /\ \A i \in 1..3 : opt.pendingTasks[i].priority = "high"
    /\ <<opt.pendingTasks[1].id, opt.pendingTasks[2].id, opt.pendingTasks[3].id>>
          = <<"C", "A", "B">>
    /\ opt.pendingTasks[1].dueDate = Midnight(1)
    /\ opt.pendingTasks[2].dueDate = Midnight(1) + 1
    /\ opt.pendingTasks[3].dueDate = Midnight(1) + 1

\* C7: the candidates are the first min(maxTasks, n) of the user's n sorted
\* pending and in-progress tasks, maxTasks being 15 when the request names
\* no number; no candidate is completed.
C7_FirstMinOfMaxTasks ==
    opt.fetched =>
        LET open == SortTasks(SelectSeq(RetrieveUserTasks(store, args.userId), IsOpen))
            limit == IF args.maxTasks.nan THEN DefaultMaxTasks ELSE args.maxTasks.n
            k == IF limit < Len(open) THEN limit ELSE Len(open)
        IN /\ opt.pendingTasks = SubSeq(open, 1, k)
           /\ \A i \in 1..Len(opt.pendingTasks) :
                 opt.pendingTasks[i].status # "completed"

NoPendingResult == Outcome(FALSE, NoPendingMessage, <<>>, <<>>)
NoOpenTask ==
    \A i \in 1..Len(store) :
        store[i].owner = args.userId => store[i].status = "completed"

\* C8: with no candidate (as when the user has no pending or in-progress
\* task) optimizeWorkload resolves with the "No pending tasks" result, a
\* response of the route carries it, and no provider was called.
C8_NoCandidateNoModelCall ==
    (opt.fetched /\ (opt.pendingTasks = <<>> \/ NoOpenTask)) =>
        /\ opt.at = "resolved"
        /\ opt.result = NoPendingResult
        /\ providerCalls = <<>>
        /\ (pc = "responded" /\ winner = "optimization") =>
              responses = <<Response(200, TRUE, "", NoPendingResult,
                                     args.days, args.maxTasks)>>

\* C8 witness: the user has only a completed task and the route answered
\* with the "No pending tasks" result.
C8_Witness ==
    /\ store = <<TaskC>>
    /\ pc = "responded"
    /\ Len(responses) = 1
    /\ responses[1].status = 200
    /\ responses[1].analysis = NoPendingMessage
    /\ providerCalls = <<>>

TimeoutResponse == Response(500, FALSE, TimeoutMessage, NoResult, NaNNum, NaNNum)

\* C9: a timer that fires before optimizeWorkload settled settles the race;
\* the response to a race the timer won is the 500 with the timeout message;
\* and every request the route awaits the race for is answered.
C9_AnsweredAtTimeout ==
    /\ [][(timer = "armed" /\ timer' = "fired" /\ ~Settled) => winner' = "timeout"]_vars
    /\ []((pc = "responded" /\ winner = "timeout") => responses = <<TimeoutResponse>>)
    /\ (pc = "racing") ~> (pc = "responded")

\* C9 witness: the timeout response was sent while the provider call is
\* still in flight.
C9_Witness ==
    /\ pc = "responded"
    /\ opt.at = "provider"
    /\ timer = "fired"
    /\ responses = <<TimeoutResponse>>

\* C10: a request gets one response, decided by a promise that had settled;
\* once it is sent nothing the loser does sends another or changes the
\* store, and no rejection goes unhandled.
C10_OneResponse ==
    [][/\ Len(responses') <= 1
       /\ unhandled' = {}
       /\ pc = "responded" => UNCHANGED <<responses, store, users, pc>>
       /\ (pc = "racing" /\ pc' = "responded") =>
             /\ Len(responses') = 1
             /\ responses'[1] = TimeoutResponse => timer = "fired"
             /\ responses'[1] # TimeoutResponse => Settled]_vars

\* C10 witness: the timeout was answered, then optimizeWorkload rejected.
C10_Witness ==
    /\ pc = "responded"
    /\ winner = "timeout"
    /\ opt.at = "rejected"
    /\ responses = <<TimeoutResponse>>


\* ---------------------------------------------------- the apply endpoint
LastResponse == responses[Len(responses)]
Applied == apply.at = "responded" /\ responses # <<>> /\ LastResponse.status = 200
Owns(userId, taskId, st) ==
    \E i \in 1..Len(st) : st[i].id = taskId /\ st[i].owner = userId
OthersTask(userId, taskId, st) ==
    \E i \in 1..Len(st) : st[i].id = taskId /\ st[i].owner # userId
ErrorsAbout(taskId) ==
    {e \in 1..Len(LastResponse.errors) : LastResponse.errors[e][2] = taskId}

\* C11: an entry naming a task of another user gets a per-item error and that
\* task keeps every field; no step of any apply request changes a task whose
\* owner is not the requesting user.
C11_OnlyOwnerWrites ==
    /\ [][\A i \in 1..Len(store), j \in 1..Len(store') :
             store[i].id = store'[j].id /\ store[i] # store'[j]
                => store[i].owner = apply.userId]_vars
    /\ [](apply.userId # "" =>
             \A i \in 1..Len(store) :
                store[i].owner # apply.userId
                   => \E j \in 1..Len(ApplyStore) : store[i] = ApplyStore[j])
    /\ [](Applied =>
             \A k \in 1..Len(apply.recommendations) :
                OthersTask(apply.userId, apply.recommendations[k].taskId, store)
                   => ErrorsAbout(apply.recommendations[k].taskId) # {})

C11_Witness ==
    /\ Applied
    /\ apply.userId = "u1"
    /\ apply.recommendations = <<Entry("obj", "X", "", "", "", "low")>>
    /\ LastResponse.errors = <<NotFoundError("X")>>
    /\ LastResponse.updated = 0
    /\ StoredTask("X") = TaskX

\* C12: the update of an entry that carries no suggestedDueDate leaves every
\* due date as it was, the update of an entry that carries no
\* suggestedPriority leaves every priority as it was, and no update changes
\* a task's id, title, status, points, tags or owner.
C12_PartialUpdate ==
    [][apply.at = "update" /\ Len(store') = Len(store) =>
          LET rec == apply.recommendations[apply.i]
          IN \A i \in 1..Len(store) :
               /\ rec.suggestedDueDate = ""
                     => store'[i].dueDate = store[i].dueDate
               /\ rec.suggestedPriority = ""
                     => store'[i].priority = store[i].priority
               /\ store'[i].id = store[i].id
               /\ store'[i].title = store[i].title
               /\ store'[i].status = store[i].status
               /\ store'[i].points = store[i].points
               /\ store'[i].tags = store[i].tags
               /\ store'[i].owner = store[i].owner]_vars

C12_Witness ==
    /\ Applied
    /\ apply.recommendations = <<Entry("obj", "A", "", "", "", "low")>>
    /\ LastResponse.updated = 1
    /\ StoredTask("A") = [TaskA EXCEPT !.priority = "low"]
    /\ StoredTask("A").dueDate = Midnight(1) + 1

\* an entry the store can apply: it carries a priority or a due date, and no
\* due date that is not a date
Applicable(rec) ==
    /\ rec.suggestedDueDate # "" \/ rec.suggestedPriority # ""
    /\ rec.suggestedDueDate # "" => ParseDate(rec.suggestedDueDate) # InvalidDate

StoreAnswered ==
    \A e \in 1..Len(apply.errors_list) : apply.errors_list[e][3] # "store error"

\* every entry was gone through, and each entry with a well-formed id that
\* names no task of the caller has its error
EveryEntryProcessed ==
    /\ apply.i = Len(apply.recommendations)
    /\ \A k \in 1..Len(apply.recommendations) :
          LET id == apply.recommendations[k].taskId
          IN IsValidObjectId(id) /\ ~Owns(apply.userId, id, ApplyStore)
                => \E e \in ErrorsAbout(id) :
                      LastResponse.errors[e] \in
                         {NotFoundError(id), FailedError(id, "store error")}

WrittenTasks ==
    {apply.updatedTasks[k] : k \in 1..Len(apply.updatedTasks)} \ {"null"}

\* C14: the `updated` value of the response is the number of distinct tasks
\* the request actually wrote, also when the array names a task twice and
\* when the task is deleted between the lookup and the update.
C14_UpdatedCountsWrittenTasks ==
    Applied => LastResponse.updated = Cardinality(WrittenTasks)

\* C15: a request whose array has an invalid entry (an empty taskId) is not
\* failed as a whole: it is answered with the per-item results, the bad
\* entry has its error and every applicable entry for a task of the caller
\* is applied or has its own error.
C15_BadEntryDoesNotFailBatch ==
    /\ apply.at = "responded"
    /\ apply.userId # ""
    /\ \E k \in 1..Len(apply.recommendations) :
          apply.recommendations[k].taskId = ""
    => /\ LastResponse.status = 200
       /\ ErrorsAbout("") # {}
       /\ \A k \in 1..Len(apply.recommendations) :
             LET rec == apply.recommendations[k]
             IN Owns(apply.userId, rec.taskId, ApplyStore) /\ Applicable(rec)
                   => rec.taskId \in WrittenTasks \/ ErrorsAbout(rec.taskId) # {}

\* C16: every stored task's priority is one of low, medium, high, urgent, and
\* so is every suggestedPriority a returned recommendation carries.
C16_PrioritiesInEnumeration ==
    /\ \A i \in 1..Len(store) : store[i].priority \in Priorities
    /\ \A k \in 1..Len(Recs) :
          Recs[k].suggestedPriority \in Priorities \cup {""}

\* ------------------------------------------------- the agent's functions
\* the provider calls of the call in progress
MyCalls == {k \in 1..Len(providerCalls) : providerCalls[k].call = args.n}
Chatting == args.op \in {"chatWithOrganizer", "optimizeWorkload"}
ContextPassed == opt.user \notin {"pending", "null"} /\ opt.tasks = "read"

\* C17: a call of chatWithOrganizer that reaches the gateway calls exactly one
\* backend: the provider the caller named (a name that is no provider goes
\* to OpenRouter), else langchain when the DeepSeek credential is set, else
\* openrouter when the OpenRouter credential is set; with no name and no
\* credential the call fails with the configuration error and calls nothing.
C17_ProviderSelection ==
    Chatting =>
      /\ Cardinality(MyCalls) <= 1
      /\ opt.at = "provider" => Cardinality(MyCalls) = 1
      /\ \A k \in MyCalls :
            LET called == providerCalls[k].provider
            IN /\ called \in {"langchain", "openrouter"}
               /\ args.provider \in {"langchain", "openrouter"}
                     => called = args.provider
               /\ args.provider = "gpt" => called = "openrouter"
               /\ args.provider = "" /\ env.deepseek => called = "langchain"
               /\ args.provider = "" /\ ~env.deepseek
                     => env.openrouter /\ called = "openrouter"
      /\ args.provider = "" /\ ~env.deepseek /\ ~env.openrouter
            => /\ MyCalls = {}
               /\ opt.at \notin {"provider", "resolved"}
               /\ opt.at = "rejected" /\ ContextPassed
                     => opt.error = "No AI provider configured"

C17_Witness ==
    /\ args.op = "chatWithOrganizer"
    /\ args.provider = ""
    /\ ~env.deepseek /\ env.openrouter
    /\ opt.at = "provider"
    /\ Len(providerCalls) = 1
    /\ providerCalls[1].provider = "openrouter"

ProviderErrors ==
    {"provider error", "No response from OpenRouter AI model",
     "No response from AI model"}

\* C18: no call of the agent calls a provider twice; a provider call of
\* chatWithOrganizer that fails or returns an empty completion rejects the
\* call with the provider's error, which the route sends as its 500; and
\* each provider request carries the system prompt and the one user message
\* of its own call, nothing of an earlier call.
C18_NoRetryNoHistory ==
    /\ \A j, k \in 1..Len(providerCalls) :
          providerCalls[j].call = providerCalls[k].call => j = k
    /\ \A k \in 1..Len(providerCalls) : Len(providerCalls[k].messages) = 2
    /\ \A k \in MyCalls : providerCalls[k].messages = <<"system", args.message>>
    /\ opt.error \in ProviderErrors /\ args.op # "testAIProvider"
          => opt.at = "rejected"
    /\ /\ pc = "responded"
       /\ args.route \in AgentEndpoints \ {"test-provider"}
       /\ opt.error \in ProviderErrors
       => LastResponse = Response(500, FALSE, opt.error, NoResult, NaNNum, NaNNum)

C18_Witness ==
    /\ pc = "responded"
    /\ args.route = "chat"
    /\ Len(providerCalls) = 1
    /\ providerCalls[1].provider = "openrouter"
    /\ opt.error = "No response from OpenRouter AI model"
    /\ LastResponse.status = 500
    /\ LastResponse.error = "No response from OpenRouter AI model"

ReadsContext == args.op \in {"chatWithOrganizer", "retrieveCompleteContext"}

\* C19: a call with a malformed id fails with "Invalid user ID format"; a
\* call with a well-formed id that has no user record fails, once both
\* reads have answered in either order, with "User not found"; and a
\* context is returned, or used for a provider call, only for a user that
\* exists.
C19_ContextFailures ==
    ReadsContext =>
      /\ ~IsValidObjectId(args.userId)
            => opt.at = "rejected" /\ opt.error = "Invalid user ID format"
      /\ IsValidObjectId(args.userId) /\ args.userId \notin users
            => /\ opt.at \in {"context", "rejected"}
               /\ opt.at = "rejected" /\ opt.user = "null" /\ opt.tasks = "read"
                     => opt.error = "User not found"
      /\ opt.at \in {"provider", "resolved"}
            => args.userId \in users /\ opt.user = args.userId
                  /\ opt.tasks = "read"

C19_Witness ==
    /\ args.op = "retrieveCompleteContext"
    /\ args.userId = "u3"
    /\ opt.at = "rejected"
    /\ opt.user = "null" /\ opt.tasks = "read"
    /\ opt.error = "User not found"

\* C20: every response an /organizer endpoint sends is a JSON body with a
\* success flag.
C20_EveryBodyHasSuccess ==
    \A k \in 1..Len(responses) : "success" \in responses[k].keys

\* the reply's JSON span parsed and its recommendations array was mapped
SpanMapped(s) ==
    LET m == FindJson(s)
        jsonData == JsonParse(StripFences(m.span))
    IN /\ m.found
       /\ jsonData.ok /\ jsonData.hasRecs /\ jsonData.recsArr
       /\ ~TryExtract(s, opt.pendingTasks).threw

\* C21: when the recommendations come from a JSON span matched in the
\* reply, the returned analysis is the reply text before the matched span
\* and the returned summary is the reply text after it.
C21_TextAroundSpan ==
    (Replied /\ SpanMapped(opt.aiResponse)) =>
        LET m == FindJson(opt.aiResponse)
        IN /\ opt.result.analysis = SubSeq(opt.aiResponse, 1, m.from - 1)
           /\ opt.result.summary =
                  SubSeq(opt.aiResponse, m.to + 1, Len(opt.aiResponse))

\* the reply with every suggestedDueDate that is no date left out
Unparseable(e) ==
    e.suggestedDueDate # "" /\ ParseDate(e.suggestedDueDate) = InvalidDate
WithoutBadDates(s) ==
    [i \in 1..Len(s) |->
        IF s[i].k = "body" /\ Unparseable(s[i].e)
        THEN BodyTok([s[i].e EXCEPT !.suggestedDueDate = ""])
        ELSE s[i]]

\* C22: a suggestedDueDate that cannot be read as a date counts as an absent
\* one: the call resolves with the recommendations the same reply without
\* that suggestedDueDate gives, none of them carrying an invalid date.
C22_BadDateIsAbsent ==
    Replied =>
        /\ Recs = ExtractRecommendations(WithoutBadDates(opt.aiResponse),
                                         opt.pendingTasks).recommendations
        /\ \A i \in 1..Len(Recs) : Recs[i].suggestedDueDate # InvalidDate

\* C22 witness: the entry for candidate A suggests "not-a-date" and the
\* priority low; it is returned with no suggested due date.
C22_Witness ==
    /\ Replied
    /\ opt.aiResponse = Fenced(ObjectText(
           <<Entry("obj", "A", "", "", "not-a-date", "low")>>))
    /\ Len(Recs) = 1
    /\ Recs[1].taskId = "A"
    /\ Recs[1].suggestedDueDate = NoDate
    /\ Recs[1].suggestedPriority = "low"

\* C23: whatever maxTasks the request of the route names, at most 15 tasks
\* are selected as candidates and offered to the model.
C23_AtMostFifteenOffered ==
    (args.route = "workload-optimization" /\ opt.fetched) =>
        Len(opt.pendingTasks) <= DefaultMaxTasks

\* C24: the page shows "No Changes Needed" once an optimization run has
\* ended with zero recommendations, and shows it in no other case: not
\* before the first run has ended.
C24_NoChangesNeededAfterEmptyRun ==
    /\ (page.mounted /\ ~page.loading /\ page.lastRun = "empty"
          /\ page.recommendations = <<>>) => NoChangesNeededShown
    /\ NoChangesNeededShown => page.lastRun = "empty"

\* C25: the number in the success message of the page is the number of
\* updated tasks in the response of the apply request it answers.
C25_ShownCountIsUpdatedCount ==
    (page.success # <<>> /\ responses # <<>>) =>
        page.success = SuccessMessage(responses[Len(responses)].updated)

\* the displayed recommendations whose task id is selected
SelectedDisplayed ==
    LET Selected(r) == r.taskId \in page.selectedRecommendations
    IN SelectSeq(page.recommendations, Selected)

\* C29: the selected task ids are always ids of displayed recommendations;
\* a new optimization run clears the recommendations and the selection
\* before it loads; a click on apply posts exactly the displayed
\* recommendations whose id is selected, which is what the endpoint
\* receives, and posts nothing when nothing is selected.
C29_SelectionWithinDisplayed ==
    /\ [](page.selectedRecommendations \subseteq TaskIdsOf(page.recommendations))
    /\ [][/\ (page'.loading /\ ~page.loading) =>
                 /\ page'.recommendations = <<>>
                 /\ page'.selectedRecommendations = {}
          /\ (page'.posted # <<>> /\ page.posted = <<>>) =>
                 /\ page.selectedRecommendations # {}
                 /\ page'.posted = <<SelectedDisplayed>>
          /\ (apply.at = "none" /\ apply'.at # "none") =>
                 apply'.recommendations = page.posted[1]]_vars

\* C29 witness: of the two displayed recommendations only the one for task
\* A is selected, and the apply endpoint has received that one alone.
C29_Witness ==
    /\ TaskIdsOf(page.recommendations) = {"A", "B"}
    /\ page.selectedRecommendations = {"A"}
    /\ page.applying
    /\ apply.at # "none"
    /\ Len(apply.recommendations) = 1
    /\ apply.recommendations = SelectedDisplayed

\* the entry suggests another day or another priority than the task has
ChangesTask(e, task) ==
    \/ /\ ParseDate(e.suggestedDueDate) # InvalidDate
       /\ \/ task.dueDate = NoDate
          \/ IsoDay(ParseDate(e.suggestedDueDate)) # IsoDay(task.dueDate)
    \/ /\ e.suggestedPriority # ""
       /\ ToLowerCase(e.suggestedPriority) # ToLowerCase(task.priority)

\* C26: when the reply is only a well-formed JSON object, as the prompt asks,
\* every entry of its recommendations array that names a candidate and
\* changes its due date or priority is returned as a recommendation.
C26_BareJsonYieldsRecommendation ==
    Replied =>
        LET v == JsonParse(opt.aiResponse)
        IN (/\ v.ok /\ v.recsArr
            /\ opt.aiResponse = ObjectText(v.recs)
            /\ \A i \in 1..Len(v.recs) : v.recs[i].shape = "obj") =>
               \A i \in 1..Len(v.recs) :
                  (/\ v.recs[i].taskId \in CandidateIds
                   /\ ChangesTask(v.recs[i], StoredTask(v.recs[i].taskId))) =>
                      \E j \in 1..Len(Recs) : Recs[j].taskId = v.recs[i].taskId

\* C27: no two recommendations returned by one call of optimizeWorkload
\* name the same task.
C27_OneRecommendationPerTask ==
    Replied =>
        \A i, j \in 1..Len(Recs) : Recs[i].taskId = Recs[j].taskId => i = j

\* C28: no step of a request of the optimization route, whatever its
\* outcome, creates, changes or deletes a task or a user record.
C28_OptimizationReadsOnly ==
    [][store' = store /\ users' = users]_vars

\* C28 witness: the route answered with the timeout, the pipeline went on
\* and returned a recommendation for task A, and the store holds A as it
\* was.
C28_Witness ==
    /\ responses = <<TimeoutResponse>>
    /\ opt.at = "resolved"
    /\ Len(Recs) = 1 /\ Recs[1].taskId = "A"
    /\ Recs[1].suggestedPriority = "low"
    /\ store = <<TaskX, TaskB, TaskC, TaskA>>

\* the tasks of the store that belong to the user of the call
TasksOfUser == {i \in 1..Len(store) : store[i].owner = args.userId}

\* C30: in a context retrieveCompleteContext returns, totalTasks is the
\* number of the user's tasks and the sum of the pending, in-progress and
\* completed counts, and overdueTasks is the number of the user's tasks
\* that have a due date before the time of the read and are not completed.
C30_StatsCountTasks ==
    (args.op = "retrieveCompleteContext" /\ opt.at = "resolved") =>
        LET stats == opt.context.stats
        IN /\ stats.totalTasks = Len(opt.context.tasks)
           /\ stats.totalTasks = Cardinality(TasksOfUser)
           /\ stats.totalTasks = stats.pendingTasks + stats.inProgressTasks
                                    + stats.completedTasks
           /\ stats.overdueTasks =
                 Cardinality({i \in TasksOfUser :
                                 /\ store[i].dueDate # NoDate
                                 /\ store[i].dueDate < opt.now
                                 /\ store[i].status # "completed"})
           /\ stats.overdueTasks <= stats.pendingTasks + stats.inProgressTasks

\* C30 witness: of the user's three tasks, all due at the start of day 1
\* and read after it, the pending and the in-progress one are overdue and
\* the completed one is not.
C30_Witness ==
    /\ args.op = "retrieveCompleteContext" /\ opt.at = "resolved"
    /\ opt.now = Morning
    /\ \A i \in TasksOfUser : store[i].dueDate = Midnight(1)
    /\ opt.context.stats = [totalTasks |-> 3, pendingTasks |-> 1,
                            inProgressTasks |-> 1, completedTasks |-> 1,
                            overdueTasks |-> 2]
=============================================================================
